---------------------------- MODULE Spec2Model ----------------------------
(***************************************************************************)
(* dmitri: the "type to filter and launch" picker of src/src/main.rs.      *)
(*                                                                         *)
(* The model covers the interaction loop of run(), the ranking function    *)
(* search(), the part of main() that consumes run()'s result, and the      *)
(* rasterizer render_text / render_glyphs of main.rs and text.rs.          *)
(*                                                                         *)
(* Strings are sequences of byte values (97 is 'a', 32 is ' '); every      *)
(* string of the model is ASCII, so byte offsets and character counts      *)
(* coincide.  An Option<usize> is the empty sequence (None) or a one       *)
(* element sequence (Some(i)).  Scores are exact fractions [n, d].         *)
(***************************************************************************)
EXTENDS Integers, Sequences, FiniteSets, TLC

VARIABLES
    input,            \* main.rs:359  let mut input
    executables,      \* main.rs:361  let executables = build_path()?
    matches,          \* main.rs:363  let mut matches
    matches_i,        \* main.rs:364  let mut matches_i
    precise_wheight,  \* main.rs:276  options.precise_wheight
    pc,               \* where run() is: "loop", "returned", "error", "exited"
    result,           \* what run() returned: <<>>, <<"Ok", output>> or <<"Err">>
    launched,         \* main.rs:338  Command::new(output).spawn() was called
    frame,            \* None, or Some of the (input, matches, matches_i) last put on the window
    ev,               \* the event the loop handled last: its type, the key, and
                      \* kp.state.shift() and the character where the arm reads them
    prev,             \* (input, matches, matches_i) when that event arrived
    rank,             \* one call of search() on its own: the arguments and,
                      \* once it has returned, Some of the result
    font_render,      \* the FontRender of main.rs:34-45 (FontRenderer of
                      \* text.rs:31-42): width, height, margin, image, and
                      \* which of the two it is and how it was built
    pass              \* the last call of render_text on its own: arguments,
                      \* the render_glyphs calls it made, how it ended

vars == <<input, executables, matches, matches_i, precise_wheight, pc,
          result, launched, frame, ev, prev, rank, font_render, pass>>

-----------------------------------------------------------------------------
(* Bounds of the model *)

\* Longest Query the model types.
MaxInputLen == 2

\* Number of generated two-letter candidates "ad", "ae", ... in the large
\* candidate list.
MaxFillers == 20

\* Longest query of a call of search() on its own.
MaxRankLen == 2

\* Longest Match List of a call of render_text on its own.
MaxRenderMatches == 2

-----------------------------------------------------------------------------
(* Option<usize> *)

None == << >>

Some(i) == << i >>

is_some(o) == Len(o) = 1

-----------------------------------------------------------------------------
(* Candidate Provider: build_path() returns a sorted list without          *)
(* duplicates.                                                             *)

RECURSIVE StrLess(_, _)
\* Ord for String: lexicographic on the bytes.
StrLess(s, t) ==
    IF Len(t) = 0 THEN FALSE
    ELSE IF Len(s) = 0 THEN TRUE
    ELSE IF s[1] # t[1] THEN s[1] < t[1]
    ELSE StrLess(Tail(s), Tail(t))

\* "ad", "ae", ...: candidates that start with 'a' and hold no 'b'.
Fillers(n) == [k \in 1..n |-> <<97, 99 + k>>]

\* "a", "ab"
HeadNames == << <<97>>, <<97, 98>> >>

\* "ba", "xabx", "xxxxab"
TailNames == << <<98, 97>>, <<120, 97, 98, 120>>, <<120, 120, 120, 120, 97, 98>> >>

\* main.rs:505-517: no name twice, and executables.sort()
sorted_dedup(list) == \A i \in 1..(Len(list) - 1) : StrLess(list[i], list[i + 1])

\* The candidate lists build_path() is taken to return.
ExecutableLists ==
    { list \in { << >>,
                 SubSeq(TailNames, 2, 2),
                 HeadNames \o TailNames,
                 TailNames,
                 SubSeq(TailNames, 2, 3),
                 Fillers(MaxFillers) \o TailNames,
                 HeadNames \o Fillers(MaxFillers) \o TailNames } :
        sorted_dedup(list) }

\* The values of the -p option (default 5.0).
Weights == {2, 5}

-----------------------------------------------------------------------------
(* Ranking Engine: search() and the rust_fuzzy_search functions it calls.  *)
(*                                                                         *)
(* A score is the exact fraction n/d of the f32 the code computes.  For    *)
(* every query, candidate list and weight of this model the f32 scores     *)
(* compare exactly as their fractions do, equal scores included.           *)

Score(n, d) == [n |-> n, d |-> d]

\* a.partial_cmp(b) == Greater
Greater(a, b) == a.n * b.d > b.n * a.d

\* a + b
Plus(a, b) == Score(a.n * b.d + b.n * a.d, a.d * b.d)

\* rust_fuzzy_search::trigrams: the string padded with two spaces in front
\* and one behind, cut into its Len(s) + 1 windows of three characters.
trigrams(s) ==
    LET padded == <<32, 32>> \o s \o <<32>>
    IN  [i \in 1..(Len(s) + 1) |-> SubSeq(padded, i, i + 2)]

\* rust_fuzzy_search::fuzzy_compare: the share of the trigrams of a that
\* occur in b.
fuzzy_compare(a, b) ==
    LET string_len == Len(a) + 1
        trigrams_a == trigrams(a)
        trigrams_b == trigrams(b)
        in_b       == {trigrams_b[j] : j \in 1..Len(trigrams_b)}
        acc        == Cardinality({i \in 1..Len(trigrams_a) : trigrams_a[i] \in in_b})
    IN  Score(acc, string_len)

\* slice::sort_by with the comparator |a, b| b.1.partial_cmp(&a.1): one
\* step of a stable sort by descending score.  The element goes behind
\* every element whose score is not smaller than its own.  A NaN score
\* compares Equal to every score (unwrap_or(Ordering::Equal)); where the
\* scores of a list hold a NaN, only the order of lists of two is the order
\* of every sort implementation.
InsertDesc(sorted, e) ==
    LET k == Cardinality({i \in 1..Len(sorted) : ~Greater(e.score, sorted[i].score)})
    IN  SubSeq(sorted, 1, k) \o <<e>> \o SubSeq(sorted, k + 1, Len(sorted))

RECURSIVE SortDescFrom(_, _, _)
SortDescFrom(seq, i, sorted) ==
    IF i > Len(seq) THEN sorted
    ELSE SortDescFrom(seq, i + 1, InsertDesc(sorted, seq[i]))

\* The stable sort by descending score.
sort_by(seq) == SortDescFrom(seq, 1, << >>)

\* rust_fuzzy_search::fuzzy_search_sorted
fuzzy_search_sorted(s, list) ==
    sort_by([i \in 1..Len(list) |-> [name |-> list[i], score |-> fuzzy_compare(s, list[i])]])

Min(S) == CHOOSE x \in S : \A y \in S : x <= y

\* fuzzy_search_best_n that drops the candidates of score 0, as
\* fuzzy_search_threshold would.
fuzzy_search_best_n_Threshold(s, list, n) ==
    LET all == SelectSeq(fuzzy_search_sorted(s, list), LAMBDA e : e.score.n > 0)
    IN  SubSeq(all, 1, Min({n, Len(all)}))

\* fuzzy_search_best_n that hands back every candidate.
fuzzy_search_best_n_NoTake(s, list, n) == fuzzy_search_sorted(s, list)

\* rust_fuzzy_search::fuzzy_search_best_n
fuzzy_search_best_n(s, list, n) ==
    LET all == fuzzy_search_sorted(s, list)
    IN  SubSeq(all, 1, Min({n, Len(all)}))

\* str::find: the offset of the first occurrence of pat in s
find(s, pat) ==
    LET occ == {i \in 0..(Len(s) - Len(pat)) : SubSeq(s, i + 1, i + Len(pat)) = pat}
    IN  IF occ = {} THEN None ELSE Some(Min(occ))

\* main.rs:534: precise_wheight / (start as f32 + precise_wheight); 0/0 is
\* the NaN of weight 0.0 at start 0.
boost(start, weight) == Score(weight, start + weight)

\* main.rs:532-536: the substring boost of one entry of res
Boosted(e, inp, weight) ==
    LET start == find(e.name, inp)
    IN  IF is_some(start)
        THEN [name |-> e.name, score |-> Plus(e.score, boost(start[1], weight))]
        ELSE e

\* search that ranks for the empty Query as for any other.
search_NoShortCircuit(inp, execs, weight) ==
    LET res     == fuzzy_search_best_n(inp, execs, 20)
        boosted == [i \in 1..Len(res) |-> Boosted(res[i], inp, weight)]
        sorted  == sort_by(boosted)
    IN  [i \in 1..Len(sorted) |-> sorted[i].name]

\* main.rs:521-540
search(inp, execs, weight) ==
    IF Len(inp) = 0 THEN << >>
    ELSE LET res     == fuzzy_search_best_n(inp, execs, 20)
             boosted == [i \in 1..Len(res) |-> Boosted(res[i], inp, weight)]
             sorted  == sort_by(boosted)
         IN  [i \in 1..Len(sorted) |-> sorted[i].name]

-----------------------------------------------------------------------------
(* Selection Controller: the Key::Tab arm of run().                        *)

\* Vec::get(i).is_some()
has_index(ms, i) == 0 <= i /\ i < Len(ms)

\* TabSelection that advances without looking whether the next index exists.
TabSelection_NoBoundsCheck(sel, ms, shift) ==
    IF Len(ms) > 1
    THEN IF ~is_some(sel)
         THEN IF ~shift THEN Some(0) ELSE Some(Len(ms) - 1)
         ELSE LET i == sel[1]
              IN  IF ~shift
                  THEN Some(i + 1)
                  ELSE IF i > 0 /\ has_index(ms, i - 1) THEN Some(i - 1) ELSE None
    ELSE sel

\* TabSelection that wraps from the last match to the first.
TabSelection_WrapsToFirst(sel, ms, shift) ==
    IF Len(ms) > 1
    THEN IF ~is_some(sel)
         THEN IF ~shift THEN Some(0) ELSE Some(Len(ms) - 1)
         ELSE LET i == sel[1]
              IN  IF ~shift
                  THEN IF has_index(ms, i + 1) THEN Some(i + 1) ELSE Some(0)
                  ELSE IF i > 0 /\ has_index(ms, i - 1) THEN Some(i - 1) ELSE None
    ELSE sel

\* TabSelection that wraps from the first match to the last on a retreat.
TabSelection_RetreatWraps(sel, ms, shift) ==
    IF Len(ms) > 1
    THEN IF ~is_some(sel)
         THEN IF ~shift THEN Some(0) ELSE Some(Len(ms) - 1)
         ELSE LET i == sel[1]
              IN  IF ~shift
                  THEN IF has_index(ms, i + 1) THEN Some(i + 1) ELSE None
                  ELSE IF i > 0 /\ has_index(ms, i - 1) THEN Some(i - 1)
                       ELSE Some(Len(ms) - 1)
    ELSE sel

\* TabSelection that cycles through a sole match as well.
TabSelection_NoLenGuard(sel, ms, shift) ==
    IF Len(ms) > 0
    THEN IF ~is_some(sel)
         THEN IF ~shift THEN Some(0) ELSE Some(Len(ms) - 1)
         ELSE LET i == sel[1]
              IN  IF ~shift
                  THEN IF has_index(ms, i + 1) THEN Some(i + 1) ELSE None
                  ELSE IF i > 0 /\ has_index(ms, i - 1) THEN Some(i - 1) ELSE None
    ELSE sel

\* TabSelection whose first advance lands on the second match.
TabSelection_StartsAtOne(sel, ms, shift) ==
    IF Len(ms) > 1
    THEN IF ~is_some(sel)
         THEN IF ~shift THEN Some(1) ELSE Some(Len(ms) - 1)
         ELSE LET i == sel[1]
              IN  IF ~shift
                  THEN IF has_index(ms, i + 1) THEN Some(i + 1) ELSE None
                  ELSE IF i > 0 /\ has_index(ms, i - 1) THEN Some(i - 1) ELSE None
    ELSE sel

\* TabSelection whose retreat stays on the first match.
TabSelection_RetreatStopsAtFirst(sel, ms, shift) ==
    IF Len(ms) > 1
    THEN IF ~is_some(sel)
         THEN IF ~shift THEN Some(0) ELSE Some(Len(ms) - 1)
         ELSE LET i == sel[1]
              IN  IF ~shift
                  THEN IF has_index(ms, i + 1) THEN Some(i + 1) ELSE None
                  ELSE IF i > 0 /\ has_index(ms, i - 1) THEN Some(i - 1)
                       ELSE Some(0)
    ELSE sel

\* main.rs:428-454: the Selection Index after a Tab
TabSelection(sel, ms, shift) ==
    IF Len(ms) > 1
    THEN IF ~is_some(sel)
         THEN IF ~shift THEN Some(0) ELSE Some(Len(ms) - 1)
         ELSE LET i == sel[1]
              IN  IF ~shift
                  THEN IF has_index(ms, i + 1) THEN Some(i + 1) ELSE None
                  ELSE IF i > 0 /\ has_index(ms, i - 1) THEN Some(i - 1) ELSE None
    ELSE sel

\* CommitOutput that hands out the raw Query whatever is selected.
CommitOutput_IgnoresSelection(inp, ms, sel) == inp

\* main.rs:422-425: the string Enter resolves to
CommitOutput(inp, ms, sel) ==
    IF ~is_some(sel) THEN inp
    ELSE IF has_index(ms, sel[1]) THEN ms[sel[1] + 1] ELSE inp

\* DropLast that cuts at the front: input[1..].
DropLast_CutsFront(inp) == SubSeq(inp, 2, Len(inp))

\* main.rs:457: input[0..input.len() - 1]
DropLast(inp) == SubSeq(inp, 1, Len(inp) - 1)

\* main.rs:465-468: char::to_lowercase().next()
to_lowercase(c) == IF c \in 65..90 THEN c + 32 ELSE c

\* The characters Key::as_char() hands out: 'a', 'b', 'A'.
KeyChars == {97, 98, 65}

-----------------------------------------------------------------------------
(* The interaction loop of run() and the match on its result in main().    *)

Event(type, key, shift, ch) == [type |-> type, key |-> key, shift |-> shift, ch |-> ch]

State(inp, ms, sel) == [input |-> inp, matches |-> ms, matches_i |-> sel]

\* No call of search() on its own is under way.
NoRank == [input |-> << >>, executables |-> << >>, weight |-> 5, res |-> None]

\* No FontRender and no call of render_text on its own.
NoFontRender ==
    [variant |-> "main", checks |-> FALSE, width |-> 0, height |-> 0,
     margin |-> 0, image |-> << >>]

NoPass ==
    [input |-> << >>, matches |-> << >>, matches_i |-> None, draws |-> << >>,
     status |-> "none", erased |-> FALSE]

Init ==
    /\ rank = NoRank
    /\ font_render = NoFontRender
    /\ pass = NoPass
    /\ input = << >>
    /\ executables \in ExecutableLists
    /\ matches = << >>
    /\ matches_i = None
    /\ precise_wheight \in Weights
    /\ pc = "loop"
    /\ result = << >>
    /\ launched = FALSE
    /\ frame = None
    /\ ev = Event("Init", "", FALSE, 0)
    /\ prev = State(<< >>, << >>, None)

\* An event arrives: wait_for_event returned Ok(ev), main.rs:377-386.
Arrives(e) ==
    /\ pc = "loop"
    /\ ev' = e
    /\ prev' = State(input, matches, matches_i)
    /\ UNCHANGED <<executables, precise_wheight, rank, font_render, pass>>

\* A `?` of run() hit an Err: run returns it and main prints it,
\* main.rs:331-334.
Fails ==
    /\ pc' = "error"
    /\ result' = <<"Err">>
    /\ UNCHANGED launched

\* The handler is through and the loop waits for the next event.
Continues ==
    /\ pc' = "loop"
    /\ UNCHANGED <<result, launched>>

\* run returns Ok(output) and main launches it unless it is empty,
\* main.rs:335-341.
Returns(output) ==
    /\ pc' = "returned"
    /\ result' = <<"Ok", output>>
    /\ launched' = (Len(output) > 0)

\* Renders that shows the state the handler found, not the one it leaves.
Renders_BeforeHandler(ok) ==
    IF ok THEN frame' = Some(State(input, matches, matches_i))
    ELSE frame' = frame

\* FontRender::render_text of the state the handler leaves, main.rs:393 and
\* 476: the frame reaches the window unless put_image or copy_area fails.
Renders(ok) ==
    IF ok THEN frame' = Some(State(input', matches', matches_i'))
    ELSE frame' = frame

\* main.rs:476-478: render_text(...)? and io::stdout().flush()? at the end of
\* a decoded key press
RenderAndFlush ==
    \E render_ok, flush_ok \in BOOLEAN :
        /\ Renders(render_ok)
        /\ IF render_ok /\ flush_ok THEN Continues ELSE Fails

\* main.rs:377-383: wait_for_event fails and the process exits
WaitError ==
    /\ pc = "loop"
    /\ pc' = "exited"
    /\ ev' = Event("WaitError", "", FALSE, 0)
    /\ prev' = State(input, matches, matches_i)
    /\ UNCHANGED <<input, executables, matches, matches_i, precise_wheight,
                   result, launched, frame, rank, font_render, pass>>

\* main.rs:387-391
ClientMessage ==
    \E is_delete \in BOOLEAN :
        /\ Arrives(Event("ClientMessage", "", FALSE, 0))
        /\ pc' = IF is_delete THEN "exited" ELSE "loop"
        /\ UNCHANGED <<input, matches, matches_i, result, launched, frame>>

\* main.rs:392-394
Expose ==
    \E render_ok \in BOOLEAN :
        /\ Arrives(Event("Expose", "", FALSE, 0))
        /\ UNCHANGED <<input, matches, matches_i>>
        /\ Renders(render_ok)
        /\ IF render_ok THEN Continues ELSE Fails

\* main.rs:395-402
FocusOut ==
    \E send_ok \in BOOLEAN :
        /\ Arrives(Event("FocusOut", "", FALSE, 0))
        /\ UNCHANGED <<input, matches, matches_i, frame>>
        /\ IF send_ok THEN Continues ELSE Fails

\* main.rs:480
OtherEvent ==
    /\ Arrives(Event("Other", "", FALSE, 0))
    /\ UNCHANGED <<input, matches, matches_i, frame>>
    /\ Continues

\* main.rs:403-410, 478: a key press that decodes to no Key
KeyUndecoded ==
    \E flush_ok \in BOOLEAN :
        /\ Arrives(Event("KeyPress", "Undecoded", FALSE, 0))
        /\ UNCHANGED <<input, matches, matches_i, frame>>
        /\ IF flush_ok THEN Continues ELSE Fails

\* KeyEscape that returns the Query instead of the empty string.
KeyEscape_ReturnsInput ==
    \E requests_ok \in BOOLEAN :
        /\ Arrives(Event("KeyPress", "Escape", FALSE, 0))
        /\ UNCHANGED <<input, matches, matches_i, frame>>
        /\ IF requests_ok THEN Returns(input) ELSE Fails

\* main.rs:412-420
KeyEscape ==
    \E requests_ok \in BOOLEAN :
        /\ Arrives(Event("KeyPress", "Escape", FALSE, 0))
        /\ UNCHANGED <<input, matches, matches_i, frame>>
        /\ IF requests_ok THEN Returns(<< >>) ELSE Fails

\* main.rs:421-427
KeyEnter ==
    /\ Arrives(Event("KeyPress", "Enter", FALSE, 0))
    /\ UNCHANGED <<input, matches, matches_i, frame>>
    /\ Returns(CommitOutput(input, matches, matches_i))

\* KeyTab that completes the Query to the match it selects.
KeyTab_CompletesQuery ==
    \E shift \in BOOLEAN :
        /\ Arrives(Event("KeyPress", "Tab", shift, 0))
        /\ matches_i' = TabSelection(matches_i, matches, shift)
        /\ input' = IF is_some(matches_i') THEN matches[matches_i'[1] + 1]
                    ELSE input
        /\ UNCHANGED matches
        /\ RenderAndFlush

\* main.rs:428-454, 476-478
KeyTab ==
    \E shift \in BOOLEAN :
        /\ Arrives(Event("KeyPress", "Tab", shift, 0))
        /\ matches_i' = TabSelection(matches_i, matches, shift)
        /\ UNCHANGED <<input, matches>>
        /\ RenderAndFlush

\* KeyBackspace that keeps the Match List of the longer Query.
KeyBackspace_NoRerank ==
    /\ Arrives(Event("KeyPress", "Backspace", FALSE, 0))
    /\ IF Len(input) > 0
       THEN /\ input' = DropLast(input)
            /\ matches_i' = None
            /\ UNCHANGED matches
       ELSE UNCHANGED <<input, matches, matches_i>>
    /\ RenderAndFlush

\* KeyBackspace without the test of input.len(): on an empty Query
\* input.len() - 1 underflows and the slice panics.
KeyBackspace_NoEmptyGuard ==
    /\ Arrives(Event("KeyPress", "Backspace", FALSE, 0))
    /\ IF Len(input) > 0
       THEN /\ input' = DropLast(input)
            /\ matches_i' = None
            /\ matches' = search(input', executables, precise_wheight)
            /\ RenderAndFlush
       ELSE /\ pc' = "exited"
            /\ UNCHANGED <<input, matches, matches_i, result, launched, frame>>

\* main.rs:455-461, 476-478
KeyBackspace ==
    /\ Arrives(Event("KeyPress", "Backspace", FALSE, 0))
    /\ IF Len(input) > 0
       THEN /\ input' = DropLast(input)
            /\ matches_i' = None
            /\ matches' = search(input', executables, precise_wheight)
       ELSE UNCHANGED <<input, matches, matches_i>>
    /\ RenderAndFlush

\* KeyChar that keeps the Selection Index.
KeyChar_KeepsSelection ==
    \E keycode_char \in KeyChars, shift \in BOOLEAN :
        /\ Len(input) < MaxInputLen
        /\ Arrives(Event("KeyPress", "Char", shift, keycode_char))
        /\ input' = Append(input, IF ~shift THEN to_lowercase(keycode_char)
                                  ELSE keycode_char)
        /\ UNCHANGED matches_i
        /\ matches' = search(input', executables, precise_wheight)
        /\ RenderAndFlush

\* main.rs:462-474, 476-478: a key with a character
KeyChar ==
    \E keycode_char \in KeyChars, shift \in BOOLEAN :
        /\ Len(input) < MaxInputLen
        /\ Arrives(Event("KeyPress", "Char", shift, keycode_char))
        /\ input' = Append(input, IF ~shift THEN to_lowercase(keycode_char)
                                  ELSE keycode_char)
        /\ matches_i' = None
        /\ matches' = search(input', executables, precise_wheight)
        /\ RenderAndFlush

\* KeyNoChar that resets the selection as a character key does.
KeyNoChar_ResetsSelection ==
    /\ Arrives(Event("KeyPress", "NoChar", FALSE, 0))
    /\ matches_i' = None
    /\ UNCHANGED <<input, matches>>
    /\ RenderAndFlush

\* main.rs:462-463, 476-478: a key without a character (as_char() is None)
KeyNoChar ==
    /\ Arrives(Event("KeyPress", "NoChar", FALSE, 0))
    /\ UNCHANGED <<input, matches, matches_i>>
    /\ RenderAndFlush

Next ==
    \/ WaitError
    \/ ClientMessage
    \/ Expose
    \/ FocusOut
    \/ OtherEvent
    \/ KeyUndecoded
    \/ KeyEscape
    \/ KeyEnter
    \/ KeyTab
    \/ KeyBackspace
    \/ KeyChar
    \/ KeyNoChar

Spec == Init /\ [][Next]_vars

-----------------------------------------------------------------------------
(* search() called on its own, with arguments from bounded sets.           *)

\* The sequences over S of length n.
Strings(S, n) == [1..n -> S]

\* The queries: every string over 'a', 'f', 'i' up to MaxRankLen.
RankQueries == UNION {Strings({97, 102, 105}, n) : n \in 0..MaxRankLen}

\* "find", "firefox", "fish"
FiNames ==
    << <<102, 105, 110, 100>>,
       <<102, 105, 114, 101, 102, 111, 120>>,
       <<102, 105, 115, 104>> >>

\* "Xxxx a", "ab": the Query "a" scores both 1/2, and sits at offset 5 in
\* the first and at offset 0 in the second.
OffsetNames == << <<88, 120, 120, 120, 32, 97>>, <<97, 98>> >>

\* "fAAAAfi" and then FiNames: the Query "fi" scores the first and "find"
\* 2/3, and sits at offset 5 in the first.
OffsetFiNames == << <<102, 65, 65, 65, 65, 102, 105>> >> \o FiNames

\* The candidate lists of the calls.
RankLists ==
    { list \in ExecutableLists \cup {FiNames, OffsetNames, OffsetFiNames} :
        sorted_dedup(list) }

\* The weights of the calls; 0 is the smallest weight that is not negative.
RankWeights == {0, 2, 5}

RankInit ==
    /\ rank \in [input : RankQueries, executables : RankLists,
                 weight : RankWeights, res : {None}]
    /\ input = << >>
    /\ executables = << >>
    /\ matches = << >>
    /\ matches_i = None
    /\ precise_wheight = 5
    /\ font_render = NoFontRender
    /\ pass = NoPass
    /\ pc = "rank"
    /\ result = << >>
    /\ launched = FALSE
    /\ frame = None
    /\ ev = Event("Init", "", FALSE, 0)
    /\ prev = State(<< >>, << >>, None)

\* main.rs:521-540: the call returns
RankCall ==
    /\ pc = "rank"
    /\ rank.res = None
    /\ rank' = [rank EXCEPT !.res = Some(search(rank.input, rank.executables, rank.weight))]
    /\ UNCHANGED <<input, executables, matches, matches_i, precise_wheight, pc,
                   result, launched, frame, ev, prev, font_render, pass>>

RankNext == RankCall

SpecRank == RankInit /\ [][RankNext]_vars

(***************************************************************************)
(* Rasterizer and compositor: render_text and render_glyphs of FontRender  *)
(* (main.rs) and of FontRenderer (text.rs), called on their own.           *)
(*                                                                         *)
(* font_render.variant says which of the two is modelled, and              *)
(* font_render.checks whether the build panics on integer overflow (a      *)
(* debug build) or wraps (a release build).  One colour channel is         *)
(* modelled.  A write outside the image ends the pass as a fault: the      *)
(* image library either panics or writes some other pixel.                 *)
(***************************************************************************)

\* The font at the configured scale: every glyph advances by the same width
\* (the font is monospace, main.rs:100-103), and fontsize is the height of a
\* line.
Font == [advance |-> 2, fontsize |-> 2]

\* The outline of a character relative to its position: 'a' fills the line,
\* 'j' starts left of its position and descends below the line, '_' is the
\* bottom row, a space has no outline.
Outline(c) ==
    CASE c = 97  -> Some([l |-> 0, t |-> 0, r |-> 2, b |-> 2])
      [] c = 106 -> Some([l |-> 0 - 1, t |-> 0, r |-> 1, b |-> 3])
      [] c = 95  -> Some([l |-> 0, t |-> 1, r |-> 2, b |-> 2])
      [] OTHER   -> None

\* glyph.pixel_bounding_box() of the glyph of c laid out at position.
pixel_bounding_box(c, position) ==
    IF Outline(c) = None THEN None
    ELSE LET o == Outline(c)[1]
         IN  Some([min_x |-> position + o.l, min_y |-> o.t,
                   max_x |-> position + o.r, max_y |-> o.b])

\* The coverage v that glyph.draw passes for pixel p of a glyph, as a
\* fraction: 1, 1/2 or 0.
Coverage(p) ==
    [n |-> IF p[1] + p[2] >= 2 THEN 0 ELSE 2 - p[1] - p[2], d |-> 2]

\* self.color and self.color_secondary: main.rs:75-76 halves a u8, text.rs
\* :57-58 halves the f32 of color_from_u8.
color == 255

ColorValue(fr, name) ==
    IF fr.variant = "main"
    THEN [n |-> IF name = "primary" THEN color ELSE color \div 2, d |-> 1]
    ELSE [n |-> color * 256 + 255, d |-> IF name = "primary" THEN 1 ELSE 2]

\* (color * v) as u8, (color * v) as u16: the cast truncates.
PixelValue(fr, name, p) ==
    LET c == ColorValue(fr, name)
        v == Coverage(p)
    IN  (c.n * v.n) \div (c.d * v.d)

\* Integer widths.  U16 is 2^16.  Usize stands for 2^64: a wrapped usize is
\* only ever compared with widths and heights, which are below either.
U16 == 2^16

Usize == 2^30

add_u16(a, b) == [val |-> (a + b) % U16, overflow |-> a + b >= U16]

sub_u16(a, b) == [val |-> (a - b) % U16, overflow |-> a < b]

\* base + (v as usize) for an i32 v: a negative v casts to 2^64 + v.
add_cast_usize(base, v) ==
    IF v >= 0 THEN [val |-> base + v, overflow |-> FALSE]
    ELSE IF base + v >= 0 THEN [val |-> base + v, overflow |-> TRUE]
    ELSE [val |-> Usize + base + v, overflow |-> FALSE]

\* self.width - self.margin * 2, in u16 in both variants.
max_x(fr) ==
    LET twice == add_u16(fr.margin, fr.margin)
        d     == sub_u16(fr.width, twice.val)
    IN  [val |-> d.val, overflow |-> twice.overflow \/ d.overflow]

\* Where pixel p of a glyph with bounding box bb lands, and whether the
\* arithmetic overflowed on the way.
Target(fr, offset, bb, p) ==
    IF fr.variant = "main"
    THEN LET x == add_cast_usize(fr.margin + offset, p[1] + bb.min_x)
             y == add_cast_usize(fr.margin, p[2] + bb.min_y)
         IN  [x |-> x.val, y |-> y.val, overflow |-> x.overflow \/ y.overflow]
    ELSE LET mo    == add_u16(fr.margin, offset)
             dst_x == add_u16(mo.val, bb.min_x % U16)
             dst_y == add_u16(fr.margin, bb.min_y % U16)
             x     == add_u16(dst_x.val, p[1])
             y     == add_u16(dst_y.val, p[2])
         IN  [x |-> x.val, y |-> y.val,
              overflow |-> \/ mo.overflow \/ dst_x.overflow \/ dst_y.overflow
                           \/ x.overflow \/ y.overflow]

\* F applied to the value of v, with v evaluated once.
Bind(v, F(_)) == CHOOSE r \in {F(x) : x \in {v}} : TRUE

\* glyph.draw with the closure of render_glyphs: every pixel of the bounding
\* box left of the limit is written, any other sets outside.
draw(fr, image, offset, bb, name) ==
    Bind([limit |-> max_x(fr),
          at |-> [p \in (0..(bb.max_x - bb.min_x - 1))
                        \X (0..(bb.max_y - bb.min_y - 1))
                    |-> Target(fr, offset, bb, p)] @@ << >>],
         LAMBDA g :
           Bind({p \in DOMAIN g.at : g.at[p].x < g.limit.val},
                LAMBDA inside :
                  IF /\ fr.checks
                     /\ \/ g.limit.overflow
                        \/ \E p \in DOMAIN g.at : g.at[p].overflow
                  THEN [fault |-> "overflow", image |-> image,
                        outside |-> FALSE, drew |-> FALSE]
                  ELSE IF \E p \in inside : \/ g.at[p].x >= fr.width
                                            \/ g.at[p].y >= fr.height
                  THEN [fault |-> "out_of_range", image |-> image,
                        outside |-> FALSE, drew |-> FALSE]
                  ELSE [fault |-> "none",
                        image |-> [q \in {<<g.at[p].x, g.at[p].y>> : p \in inside}
                                     |-> PixelValue(fr, name,
                                           CHOOSE p \in inside :
                                             <<g.at[p].x, g.at[p].y>> = q)]
                                  @@ image,
                        outside |-> inside # DOMAIN g.at,
                        drew |-> inside # {}]))

\* The loop over the glyphs of render_glyphs, from glyph k of chars on.  st
\* carries the image, next_x, for every glyph the loop has entered whether
\* it set outside, and a fault.
RECURSIVE glyph_loop(_, _, _, _, _, _)
glyph_loop(fr, st, offset, chars, k, name) ==
    IF k > Len(chars) THEN st
    ELSE IF pixel_bounding_box(chars[k], (k - 1) * Font.advance) = None
    THEN glyph_loop(fr, [st EXCEPT !.next_x = offset + (k - 1) * Font.advance,
                                   !.hits = Append(@, FALSE)],
                    offset, chars, k + 1, name)
    ELSE
      Bind([bb |-> pixel_bounding_box(chars[k], (k - 1) * Font.advance)[1],
            d  |-> draw(fr, st.image, offset,
                        pixel_bounding_box(chars[k], (k - 1) * Font.advance)[1],
                        name)],
           LAMBDA g :
             IF g.d.fault # "none"
             THEN [st EXCEPT !.hits = Append(@, FALSE), !.fault = g.d.fault]
             ELSE Bind([image |-> g.d.image,
                        next_x |-> IF fr.variant = "main"
                                   THEN (IF g.d.drew THEN offset + g.bb.max_x
                                         ELSE st.next_x)
                                   ELSE (IF g.d.outside THEN st.next_x
                                         ELSE offset + g.bb.max_x),
                        hits |-> Append(st.hits, g.d.outside),
                        fault |-> "none"],
                       LAMBDA now :
                         IF g.d.outside THEN now
                         ELSE glyph_loop(fr, now, offset, chars, k + 1, name)))

\* render_glyphs(offset, text, color): lays out text + " " and draws it.
render_glyphs(fr, image, offset, text, name) ==
    glyph_loop(fr,
               [image |-> image, next_x |-> offset, hits |-> << >>,
                fault |-> "none"],
               offset, text \o <<32>>, 1, name)

\* One call of render_glyphs as render_text sees it.
DrawCall(text, name, offset, r) ==
    [text |-> text, color |-> name, offset |-> offset, next_x |-> r.next_x,
     hits |-> r.hits, fault |-> r.fault]

\* The colour of the Query segment and of match i.
InputColor_AlwaysPrimary(sel) == "primary"

InputColor(sel) == IF sel = None THEN "primary" ELSE "secondary"

\* MatchColor that counts the matches from one.
MatchColor_OneBased(sel, i) ==
    IF sel = Some(i + 1) THEN "primary" ELSE "secondary"

MatchColor(sel, i) == IF sel = Some(i) THEN "primary" ELSE "secondary"

\* The "clear image" loop of render_text.
clear_FirstRow(fr) ==
    [q \in DOMAIN fr.image |-> IF q[2] = 0 THEN 0 ELSE fr.image[q]] @@ << >>

clear(fr) == [q \in DOMAIN fr.image |-> 0] @@ << >>

\* The loop over the matches of render_text, from match i (counted from 0)
\* on.  st carries the image, x, the calls made so far and a fault.
RECURSIVE match_loop(_, _, _, _, _)
match_loop(fr, st, ms, sel, i) ==
    IF i >= Len(ms) THEN st
    ELSE
      Bind(render_glyphs(fr, st.image, st.x, <<32>>, "secondary"),
           LAMBDA sep :
             IF sep.fault # "none"
             THEN [image |-> sep.image, x |-> sep.next_x, fault |-> sep.fault,
                   draws |-> Append(st.draws,
                                    DrawCall(<<32>>, "secondary", st.x, sep))]
             ELSE
               Bind(render_glyphs(fr, sep.image, sep.next_x, ms[i + 1],
                                  MatchColor(sel, i)),
                    LAMBDA m :
                      Bind([image |-> m.image, x |-> m.next_x,
                            fault |-> m.fault,
                            draws |-> st.draws \o
                               << DrawCall(<<32>>, "secondary", st.x, sep),
                                  DrawCall(ms[i + 1], MatchColor(sel, i),
                                           sep.next_x, m) >>],
                           LAMBDA st2 :
                             IF m.fault # "none" \/ m.next_x > fr.width
                             THEN st2
                             ELSE match_loop(fr, st2, ms, sel, i + 1))))

\* render_text up to the requests that hand the image to the window.
render_text(fr, inp, ms, sel) ==
    Bind(render_glyphs(fr, clear(fr), 0,
                       IF Len(inp) = 0 THEN <<95>> ELSE inp,
                       IF Len(inp) = 0 THEN "primary" ELSE InputColor(sel)),
         LAMBDA r :
           Bind([image |-> r.image, x |-> r.next_x, fault |-> r.fault,
                 draws |-> << DrawCall(IF Len(inp) = 0 THEN <<95>> ELSE inp,
                                       IF Len(inp) = 0 THEN "primary"
                                       ELSE InputColor(sel), 0, r) >>],
                LAMBDA st :
                  IF Len(inp) = 0 \/ r.fault # "none" THEN st
                  ELSE match_loop(fr, st, ms, sel, 0)))

\* The windows and margins of the model: a roomy line, a line the segments
\* overrun, a window without margin, and a margin wider than half the window.
Geometries ==
    { [width |-> 12, margin |-> 1], [width |-> 8, margin |-> 1],
      [width |-> 5, margin |-> 0], [width |-> 5, margin |-> 3] }

\* FontRender::new and FontRenderer::new: the image has width x height
\* pixels, and main() makes the window fontsize + 2 * margin high.
FontRenders ==
    { [variant |-> v, checks |-> c, width |-> g.width,
       height |-> Font.fontsize + g.margin * 2, margin |-> g.margin,
       image |-> [q \in (0..(g.width - 1))
                        \X (0..(Font.fontsize + g.margin * 2 - 1)) |-> 0]]
      : v \in {"main", "text"}, c \in BOOLEAN, g \in Geometries }

\* The arguments run() can pass to render_text: a Match List has no
\* duplicates and is empty while the Query is, and the Selection Index is
\* None or an index of a Match List of two or more.
RenderInputs == {<< >>, <<97>>, <<106, 97>>}

RenderNames == {<<97>>, <<97, 97>>, <<106>>}

RenderMatchLists ==
    { ms \in UNION {[1..n -> RenderNames] : n \in 0..MaxRenderMatches} :
        \A i, j \in 1..Len(ms) : ms[i] = ms[j] => i = j }

RenderSelections(ms) ==
    {None} \cup (IF Len(ms) > 1 THEN {Some(i) : i \in 0..(Len(ms) - 1)} ELSE {})

RenderInit ==
    /\ font_render \in FontRenders
    /\ pass = NoPass
    /\ rank = NoRank
    /\ input = << >>
    /\ executables = << >>
    /\ matches = << >>
    /\ matches_i = None
    /\ precise_wheight = 5
    /\ pc = "render"
    /\ result = << >>
    /\ launched = FALSE
    /\ frame = None
    /\ ev = Event("Init", "", FALSE, 0)
    /\ prev = State(<< >>, << >>, None)

\* One call of render_text.  A pass that faulted is the last one: its status
\* is the fault.
RenderText(inp, ms, sel) ==
    /\ pc = "render"
    /\ pass.status \in {"none", "done"}
    /\ \E r \in {render_text(font_render, inp, ms, sel)} :
           /\ font_render' = [font_render EXCEPT !.image = r.image]
           /\ pass' = [input |-> inp, matches |-> ms, matches_i |-> sel,
                       draws |-> r.draws,
                       status |-> IF r.fault = "none" THEN "done" ELSE r.fault,
                       erased |-> \E q \in DOMAIN r.image :
                                     font_render.image[q] # 0 /\ r.image[q] = 0]
    /\ UNCHANGED <<input, executables, matches, matches_i, precise_wheight, pc,
                   result, launched, frame, ev, prev, rank>>

RenderNext ==
    \E inp \in RenderInputs, ms \in RenderMatchLists :
        /\ Len(inp) = 0 => ms = << >>
        /\ \E sel \in RenderSelections(ms) : RenderText(inp, ms, sel)

SpecRender == RenderInit /\ [][RenderNext]_vars

-----------------------------------------------------------------------------
(* Selection Controller and interaction loop: properties                   *)

\* The event handled last was this key press.
Pressed(key) == ev.type = "KeyPress" /\ ev.key = key

Advanced == Pressed("Tab") /\ ~ev.shift

Retreated == Pressed("Tab") /\ ev.shift

\* The event handled last changed the Query.
Edited == input # prev.input

\* C1: in every reachable state the Selection Index is None or Some(i) with
\* 0 <= i < len(Match List); a re-ranking that shrinks the Match List leaves
\* no stale index behind.
C1_SelectionInRange ==
    \/ matches_i = None
    \/ /\ is_some(matches_i)
       /\ 0 <= matches_i[1]
       /\ matches_i[1] < Len(matches)

\* A backspace from Selected(k) left a Match List with no index k.
C1_Witness ==
    /\ Pressed("Backspace")
    /\ is_some(prev.matches_i)
    /\ prev.matches_i[1] >= Len(matches)
    /\ Len(matches) < Len(prev.matches)
    /\ matches_i = None

\* C2: every step that changes the Query (an append, or a backspace on a
\* non-empty Query) leaves the Selection Index at None, and the frame the
\* handler renders afterwards already shows the Query unselected.
C2_EditResetsSelection ==
    [][input' # input =>
          /\ matches_i' = None
          /\ frame' # frame => frame' = Some(State(input', matches', None))
          /\ pc' = "loop" => frame' # frame]_vars

\* An edit arrived in Selected(k) and its frame is on the window.
C2_Witness ==
    /\ Edited
    /\ Pressed("Char") \/ Pressed("Backspace")
    /\ is_some(prev.matches_i)
    /\ matches_i = None
    /\ frame = Some(State(input, matches, None))
    /\ pc = "loop"

\* C3: in every reachable state the Match List is search(Query, candidates,
\* weight) computed afresh; it is empty with the empty Query at the start.
C3_MatchesAreRanked ==
    /\ matches = search(input, executables, precise_wheight)
    /\ ev.type = "Init" => input = << >> /\ matches = << >>

\* A backspace left a non-empty Query whose Match List differs from the one
\* before.
C3_Witness ==
    /\ Pressed("Backspace")
    /\ Edited
    /\ Len(input) > 0
    /\ Len(matches) > 1
    /\ matches # prev.matches

\* C4: an advance with more than one match goes from Unselected to
\* Selected(0), from Selected(i) to Selected(i+1) if that index exists and to
\* Unselected otherwise.
C4_Advance ==
    (Advanced /\ Len(prev.matches) > 1) =>
        IF prev.matches_i = None THEN matches_i = Some(0)
        ELSE IF prev.matches_i[1] + 1 < Len(prev.matches)
             THEN matches_i = Some(prev.matches_i[1] + 1)
             ELSE matches_i = None

\* An advance from the last match went to Unselected.
C4_Witness ==
    /\ Advanced
    /\ Len(prev.matches) > 1
    /\ prev.matches_i = Some(Len(prev.matches) - 1)
    /\ matches_i = None

\* C5: a retreat with more than one match goes from Unselected to
\* Selected(len - 1), from Selected(i), i > 0, to Selected(i-1) and from
\* Selected(0) to Unselected.
C5_Retreat ==
    (Retreated /\ Len(prev.matches) > 1) =>
        IF prev.matches_i = None THEN matches_i = Some(Len(prev.matches) - 1)
        ELSE IF prev.matches_i[1] > 0
             THEN matches_i = Some(prev.matches_i[1] - 1)
             ELSE matches_i = None

\* A retreat from the first match went to Unselected.
C5_Witness ==
    /\ Retreated
    /\ Len(prev.matches) > 1
    /\ prev.matches_i = Some(0)
    /\ matches_i = None

\* C6: Enter ends the loop; the output is matches[i] in Selected(i) and the
\* raw Query when Unselected.
C6_Commit ==
    Pressed("Enter") =>
        /\ pc = "returned"
        /\ result = <<"Ok", IF is_some(matches_i) THEN matches[matches_i[1] + 1]
                            ELSE input>>

\* Enter in Selected(i) returned a match that is not the Query.
C6_Witness ==
    /\ Pressed("Enter")
    /\ is_some(matches_i)
    /\ pc = "returned"
    /\ result = <<"Ok", matches[matches_i[1] + 1]>>
    /\ matches[matches_i[1] + 1] # input

\* C7: Escape ends the loop in every state: no step follows it, nothing is
\* launched, and the output run() returns is the empty string.
C7_Cancel ==
    /\ [](Pressed("Escape") =>
            /\ pc \in {"returned", "error"}
            /\ ~launched
            /\ pc = "returned" => result = <<"Ok", << >> >>)
    /\ [][~Pressed("Escape")]_vars

\* Escape arrived with a Query typed and a match selected.
C7_Witness ==
    /\ Pressed("Escape")
    /\ pc = "returned"
    /\ Len(input) > 0
    /\ is_some(matches_i)
    /\ ~launched

\* C8: with at most one match a Tab changes neither the Selection Index nor
\* the Query nor the Match List, and a sole match is never selected.
C8_TabNoOp ==
    /\ (Pressed("Tab") /\ Len(prev.matches) <= 1) =>
          /\ matches_i = prev.matches_i
          /\ input = prev.input
          /\ matches = prev.matches
    /\ Len(matches) <= 1 => matches_i = None

\* A Tab arrived with exactly one match.
C8_Witness ==
    /\ Pressed("Tab")
    /\ Len(prev.matches) = 1
    /\ Len(matches) = 1
    /\ matches_i = None

RECURSIVE Advances(_, _, _)
\* The Selection Index after k advances in a row.
Advances(sel, ms, k) ==
    IF k = 0 THEN sel
    ELSE Advances(TabSelection(sel, ms, FALSE), ms, k - 1)

\* C9: with n > 1 matches, k advances from Unselected reach Selected(k-1)
\* for k = 1..n, the (n+1)-th advance is back at Unselected, and one retreat
\* from Unselected reaches Selected(n-1).
C9_Cycle ==
    LET n == Len(matches)
    IN  n > 1 =>
          /\ \A k \in 1..n : Advances(None, matches, k) = Some(k - 1)
          /\ Advances(None, matches, n + 1) = None
          /\ TabSelection(None, matches, TRUE) = Some(n - 1)
          /\ (Advanced /\ is_some(prev.matches_i)) =>
                matches_i = Advances(None, matches, prev.matches_i[1] + 2)

\* The third advance in a list of three matches reached the last one.
C9_Witness ==
    /\ Advanced
    /\ Len(matches) = 3
    /\ prev.matches_i = Some(1)
    /\ matches_i = Some(2)

-----------------------------------------------------------------------------
(* Ranking Engine: properties                                              *)

\* The candidates with their boosted scores, in the Candidate Provider's
\* order.
AllBoosted(inp, execs, weight) ==
    [i \in 1..Len(execs) |->
        Boosted([name |-> execs[i], score |-> fuzzy_compare(inp, execs[i])], inp, weight)]

\* The 20 candidates of the highest boosted score by descending boosted
\* score, equal scores in the Candidate Provider's order.
TopByBoosted(inp, execs, weight) ==
    LET sorted == sort_by(AllBoosted(inp, execs, weight))
        top    == SubSeq(sorted, 1, Min({20, Len(sorted)}))
    IN  [i \in 1..Len(top) |-> top[i].name]

\* C10: the Match List of a non-empty Query is the (at most 20) candidates
\* of the highest boosted score, by descending boosted score, equal scores
\* in the Candidate Provider's order.
C10_TopByBoostedScore ==
    Len(input) > 0 => matches = TopByBoosted(input, executables, precise_wheight)

\* The elements of a sequence.
Range(seq) == {seq[i] : i \in 1..Len(seq)}

\* C11: the Match List never holds more than 20 names, and every name in it
\* is one of the candidates.
C11_AtMostTwentyCandidates ==
    /\ Len(matches) <= 20
    /\ \A i \in 1..Len(matches) : matches[i] \in Range(executables)

\* A Query was ranked against more than 20 candidates and 20 came back.
C11_Witness ==
    /\ Pressed("Char")
    /\ Len(executables) > 20
    /\ Len(matches) = 20

\* C12: search returns the empty sequence for the empty Query whatever the
\* candidates are, and the Match List is empty whenever the Query is.
C12_EmptyQueryNoMatches ==
    /\ search(<< >>, executables, precise_wheight) = << >>
    /\ Len(input) = 0 => matches = << >>

\* A backspace emptied the Query and the Match List with it.
C12_Witness ==
    /\ Pressed("Backspace")
    /\ Edited
    /\ input = << >>
    /\ Len(executables) > 0
    /\ Len(prev.matches) > 0
    /\ matches = << >>

\* The call of search() on its own has returned.
Ranked == is_some(rank.res)

\* C13: for a non-empty query and at most 20 candidates, none of them twice,
\* search returns every candidate exactly once; so it does for "find",
\* "firefox", "fish" with the query "fi" and the weight 5.0.
C13_PermutationOfCandidates ==
    (Ranked /\ Len(rank.input) > 0 /\ Len(rank.executables) <= 20) =>
        LET res == rank.res[1]
        IN  /\ Len(res) = Len(rank.executables)
            /\ Range(res) = Range(rank.executables)
            /\ \A i, j \in 1..Len(res) : res[i] = res[j] => i = j

\* The call with "fi", weight 5.0 and the three names returned all three.
C13_Witness ==
    /\ Ranked
    /\ rank.input = <<102, 105>>
    /\ rank.weight = 5
    /\ rank.executables = FiNames
    /\ Len(rank.res[1]) = 3
    /\ Range(rank.res[1]) = Range(FiNames)

\* a <= b on f32: false when either side is NaN
LessEq(a, b) == a.d # 0 /\ b.d # 0 /\ a.n * b.d <= b.n * a.d

\* C14: for every weight that is not negative the boost is 1.0 at offset 0
\* and does not grow with the offset; of two returned candidates of equal
\* base score, the one with the query at offset 0 comes before the one with
\* the query at offset 5.
C14_BoostFavoursPrefix ==
    Ranked =>
        LET res == rank.res[1]
            w   == rank.weight
        IN  /\ LessEq(boost(0, w), Score(1, 1)) /\ LessEq(Score(1, 1), boost(0, w))
            /\ \A start \in 0..5 : LessEq(boost(start + 1, w), boost(start, w))
            /\ \A i, j \in 1..Len(res) :
                  ( /\ find(res[i], rank.input) = Some(0)
                    /\ find(res[j], rank.input) = Some(5)
                    /\ LessEq(fuzzy_compare(rank.input, res[i]), fuzzy_compare(rank.input, res[j]))
                    /\ LessEq(fuzzy_compare(rank.input, res[j]), fuzzy_compare(rank.input, res[i])) )
                  => i < j


(***************************************************************************)
(* Rasterizer and compositor: properties                                   *)
(***************************************************************************)

\* The segments render_text has to draw for a non-empty Query, in order:
\* the Query, then a space and the match for every match.
Segments(inp, ms, sel) ==
    [k \in 1..(1 + 2 * Len(ms)) |->
        IF k = 1
        THEN [text |-> inp,
              color |-> IF sel = None THEN "primary" ELSE "secondary"]
        ELSE IF k % 2 = 0
        THEN [text |-> <<32>>, color |-> "secondary"]
        ELSE [text |-> ms[(k - 1) \div 2],
              color |-> IF sel = Some((k - 1) \div 2 - 1) THEN "primary"
                        ELSE "secondary"]]

\* The call set outside: one of its glyphs had a pixel at or right of
\* width - 2 * margin.
HitBoundary(call) == \E j \in 1..Len(call.hits) : call.hits[j]

\* The last call of the pass returned an x right of the window: the loop of
\* render_text breaks.
Broke ==
    /\ Len(pass.draws) > 1
    /\ Len(pass.draws) % 2 = 1
    /\ pass.draws[Len(pass.draws)].next_x > font_render.width

\* C16: a render pass with a non-empty Query draws the Query first, in the
\* primary colour exactly when nothing is selected, then for every match in
\* list order a single space in the secondary colour and the match, in the
\* primary colour exactly when the Selection Index is its index.  Each
\* segment starts where the one before it ended, and a pass that
\* completes draws every segment unless the loop broke.
C16_SegmentOrderAndColour ==
    (pass.status # "none" /\ Len(pass.input) > 0) =>
        LET expected == Segments(pass.input, pass.matches, pass.matches_i)
        IN  /\ Len(pass.draws) >= 1
            /\ Len(pass.draws) <= Len(expected)
            /\ pass.draws[1].offset = 0
            /\ \A k \in 1..Len(pass.draws) :
                  /\ pass.draws[k].text = expected[k].text
                  /\ pass.draws[k].color = expected[k].color
                  /\ k > 1 => pass.draws[k].offset = pass.draws[k - 1].next_x
            /\ (pass.status = "done" /\ ~Broke) =>
                  Len(pass.draws) = Len(expected)

\* C16 witness: a completed pass with a Query, two matches and the second one
\* selected that drew all five segments, none of them cut.
C16_Witness ==
    /\ pass.status = "done"
    /\ \A k \in 1..Len(pass.draws) : ~HitBoundary(pass.draws[k])
    /\ Len(pass.input) > 0
    /\ Len(pass.matches) = 2
    /\ pass.matches_i = Some(1)
    /\ Len(pass.draws) = 5
    /\ pass.draws[1].color = "secondary"
    /\ pass.draws[5].color = "primary"

\* C17: once a call of render_glyphs has hit the boundary, the pass makes no
\* further call.
C17_NoDrawAfterBoundary ==
    \A k \in 1..Len(pass.draws) :
        HitBoundary(pass.draws[k]) => k = Len(pass.draws)

\* C18: within a call of render_glyphs no glyph is drawn after one that had
\* a pixel at or right of width - 2 * margin, and after a completed pass
\* every pixel of the image at or right of width - 2 * margin is zero.
C18_NothingRightOfBoundary ==
    /\ \A k \in 1..Len(pass.draws) :
          \A j \in 1..Len(pass.draws[k].hits) :
              pass.draws[k].hits[j] => j = Len(pass.draws[k].hits)
    /\ pass.status = "done" =>
          \A q \in DOMAIN font_render.image :
              q[1] >= font_render.width - 2 * font_render.margin
                  => font_render.image[q] = 0

\* The FontRender with an image of zeros.
Blank(fr) == [fr EXCEPT !.image = [q \in DOMAIN fr.image |-> 0]]

\* C19: the image a completed pass hands to the window is the one the same
\* Query, Match List and Selection Index give on an image of zeros, whatever
\* the frame before it was.
C19_FrameDependsOnStateOnly ==
    pass.status = "done" =>
        font_render.image =
            render_text(Blank(font_render), pass.input, pass.matches,
                        pass.matches_i).image

\* C19 witness: a completed pass after which a pixel the frame before it had
\* set is zero.
C19_Witness == pass.status = "done" /\ pass.erased

\* C20: no pass ends in a fault: no overflow of the coordinate arithmetic or
\* of width - 2 * margin, and no write outside the image.
C20_DrawingNeverFails == pass.status \in {"none", "done"}

-----------------------------------------------------------------------------
(* Interaction loop: rendering and frame properties                        *)

\* The event handled last is one the loop answers with a render pass: an
\* exposure, a navigation or an edit.
Repaints ==
    \/ ev.type = "Expose"
    \/ Pressed("Tab")
    \/ Pressed("Backspace")
    \/ Pressed("Char")

\* C21: whenever the loop is about to accept an event, the frame the window
\* shows is the one of the current Query, Match List and Selection Index:
\* after an exposure, a navigation or an edit a render pass of the state the
\* handler left has completed, and no shown frame is older than the state.
C21_FrameFollowsState ==
    pc = "loop" =>
        /\ Repaints => frame = Some(State(input, matches, matches_i))
        /\ frame # None => frame = Some(State(input, matches, matches_i))

\* C21 witness: the loop waits for the next event after a Tab moved the
\* selection, and the frame shows the selection.
C21_Witness ==
    /\ pc = "loop"
    /\ Pressed("Tab")
    /\ matches_i # prev.matches_i
    /\ frame = Some(State(input, matches, matches_i))

\* C22: with more than one match, an advance followed by a retreat and a
\* retreat followed by an advance lead back to the Selection Index they
\* started from, from Unselected and from every Selected(i); and the Tab
\* opposite to the one just handled leads back to the index before it.
C22_TabsAreInverses ==
    Len(matches) > 1 =>
        /\ TabSelection(TabSelection(matches_i, matches, FALSE), matches, TRUE)
              = matches_i
        /\ TabSelection(TabSelection(matches_i, matches, TRUE), matches, FALSE)
              = matches_i
        /\ Pressed("Tab") =>
              TabSelection(matches_i, matches, ~ev.shift) = prev.matches_i

\* C22 witness: a retreat from Unselected reached the last of three matches,
\* from where an advance leads back to Unselected.
C22_Witness ==
    /\ Retreated
    /\ Len(matches) = 3
    /\ prev.matches_i = None
    /\ matches_i = Some(2)
    /\ TabSelection(matches_i, matches, FALSE) = None

-----------------------------------------------------------------------------
(* Rasterizer and compositor: the primary segment                          *)

\* The pass completed, drew every segment of its arguments and cut none.
Untruncated ==
    /\ pass.status = "done"
    /\ Len(pass.draws) =
          (IF Len(pass.input) = 0 THEN 1 ELSE 1 + 2 * Len(pass.matches))
    /\ \A k \in 1..Len(pass.draws) : ~HitBoundary(pass.draws[k])

\* The calls of the pass made with the primary colour.
PrimaryCalls == {k \in 1..Len(pass.draws) : pass.draws[k].color = "primary"}

\* C23: a pass that is not truncated draws exactly one segment in the
\* primary colour: the placeholder "_" when the Query is empty, the Query
\* when it is not and nothing is selected, and match i, not the Query, when
\* the Selection Index is Some(i).
C23_OnePrimarySegment ==
    Untruncated =>
        /\ Cardinality(PrimaryCalls) = 1
        /\ IF Len(pass.input) = 0
           THEN PrimaryCalls = {1} /\ pass.draws[1].text = <<95>>
           ELSE IF pass.matches_i = None
           THEN PrimaryCalls = {1} /\ pass.draws[1].text = pass.input
           ELSE /\ PrimaryCalls = {2 * pass.matches_i[1] + 3}
                /\ pass.draws[2 * pass.matches_i[1] + 3].text
                      = pass.matches[pass.matches_i[1] + 1]

\* C23 witness: an untruncated pass with the first of two matches selected:
\* the Query is secondary and the first match is the primary segment.
C23_Witness ==
    /\ Untruncated
    /\ Len(pass.input) > 0
    /\ Len(pass.matches) = 2
    /\ pass.matches_i = Some(0)
    /\ pass.draws[1].color = "secondary"
    /\ pass.draws[3].color = "primary"
    /\ pass.draws[5].color = "secondary"

-----------------------------------------------------------------------------
(* Interaction loop: edits and events that change nothing                  *)

C25_BackspaceOnEmptyKeepsLoop ==
    (Pressed("Backspace") /\ Len(prev.input) = 0) =>
        /\ State(input, matches, matches_i) = prev
        /\ pc = "loop"

\* C25 as amended: a backspace on an empty Query changes neither the Query
\* nor the Match List nor the Selection Index, and its arm cannot fail; the
\* loop waits for the next event, showing the unchanged state, unless the
\* render pass or the flush after the arm fails, which ends run with the
\* error and launches nothing.
C25_BackspaceOnEmptyIsNoOp ==
    (Pressed("Backspace") /\ Len(prev.input) = 0) =>
        /\ State(input, matches, matches_i) = prev
        /\ pc \in {"loop", "error"}
        /\ pc = "loop" => frame = Some(prev)
        /\ pc = "error" => result = <<"Err">> /\ ~launched

\* C25 witness: the loop goes on after a backspace on the empty Query of a
\* picker that has candidates.
C25_Witness ==
    /\ Pressed("Backspace")
    /\ Len(prev.input) = 0
    /\ Len(executables) > 0
    /\ input = << >>
    /\ pc = "loop"

\* C26: a Tab, with or without shift, leaves the Query and the Match List as
\* they were, in every state; only the Selection Index may differ.
C26_TabKeepsQueryAndMatches ==
    Pressed("Tab") =>
        /\ input = prev.input
        /\ matches = prev.matches

\* C26 witness: a Tab changed the Selection Index of a non-empty Query and
\* left Query and Match List alone.
C26_Witness ==
    /\ Pressed("Tab")
    /\ Len(input) > 0
    /\ matches_i # prev.matches_i
    /\ input = prev.input
    /\ matches = prev.matches
    /\ is_some(prev.matches_i)
    /\ is_some(matches_i)

\* The event handled last was an Expose, a FocusOut, or a key press that
\* decoded to no key or to a key without a character.
Inert ==
    \/ ev.type \in {"Expose", "FocusOut"}
    \/ Pressed("Undecoded")
    \/ Pressed("NoChar")

\* C27 as stated: an Expose, a FocusOut and a key press decoding to no key or
\* to a key without a character leave Query, Match List and Selection Index
\* unchanged, and the loop is still running after them.
C27_InertEventsKeepLoop ==
    Inert =>
        /\ State(input, matches, matches_i) = prev
        /\ pc = "loop"

\* C27 as amended: these events leave Query, Match List and Selection Index
\* unchanged; the loop waits for the next event unless the render pass, the
\* focus request or the flush of their handler fails, which ends run with the
\* error and launches nothing.
C27_InertEventsKeepState ==
    Inert =>
        /\ State(input, matches, matches_i) = prev
        /\ pc \in {"loop", "error"}
        /\ pc = "error" => (result = <<"Err">> /\ ~launched)

\* C27 witness: a key without a character was pressed while a match was
\* selected; the selection is still there and the loop goes on.
C27_Witness ==
    /\ Pressed("NoChar")
    /\ Len(input) > 0
    /\ is_some(matches_i)
    /\ State(input, matches, matches_i) = prev
    /\ pc = "loop"

=============================================================================
